---- MODULE Spec2Model ----
(***************************************************************************)
(* Slide-mode viewer of Allusion: the UiStore fields the slide view reads  *)
(* and writes (firstItem, fileSelection, isSlideMode), the SlideView       *)
(* component (jump-to reaction, prev/next handlers, preload effect) and    *)
(* the ZoomableImage / VideoPlayer components (source resolution, decode,  *)
(* scale bounds).  One SlideView instance is followed from the moment it   *)
(* is rendered until after it is unmounted.                                *)
(***************************************************************************)
EXTENDS Integers, Sequences, FiniteSets, Bags, TLC

(***************************************************************************)
(* Bounds of the model.                                                    *)
(***************************************************************************)
\* Number of files that exist; the file list is drawn from them.
MaxFiles == 3
\* Number of different side lengths a container or an image can have.
MaxDim == 2
\* Number of preload requests that can be in flight at a time: a handler
\* whose autorun runs would go beyond it waits for a request to end.
MaxInFlight == 3

(***************************************************************************)
(* Program constants.                                                      *)
(***************************************************************************)
\* ZoombableImage.tsx:97 and VideoPlayer.tsx:35, maxScale={5}
MaxScale == 5
\* The floor 0.1 of ZoombableImage.tsx:88 and VideoPlayer.tsx:26, as the
\* fraction FloorNum / FloorDen.
FloorNum == 1
FloorDen == 10

(***************************************************************************)
(* Values.                                                                 *)
(***************************************************************************)
Files == 1..MaxFiles
\* JavaScript's undefined where a ClientFile is expected.
NoFile == 0
\* An optional number: <<>> is undefined, <<k>> is the number k.
Undef == <<>>
Some(k) == <<k>>
\* The empty string where a path is expected.
EmptyPath == <<>>

Min(a, b) == IF a <= b THEN a ELSE b
Max(a, b) == IF a >= b THEN a ELSE b

\* Fields of a ClientFile (inputs of the subsystem, fixed per file).
absolutePath(f) == <<"abs", f>>
\* Even-numbered files have no thumbnail yet (empty thumbnailPath).
thumbnailPath(f) == IF f % 2 = 0 THEN EmptyPath ELSE <<"thumb", f>>
\* The side lengths of the model: 1, 12, 23, ... pixels, so that a container
\* can be more than ten times smaller than its content.
Side(i) == 1 + 11 * i
Dims == {Side(i) : i \in 0..(MaxDim - 1)}
fileWidth(f) == Side(f % MaxDim)
fileHeight(f) == Side((f + 1) % MaxDim)
\* ContentSelector.tsx mediaTypes[file.extension]: every third file is a video.
mediaType(f) == IF f % 3 = 0 THEN "video" ELSE "image"

\* utils.createDimension(width, height): the pair [width, height].
createDimension(w, h) == <<w, h>>

\* Poll<Result<T, any>>: the value of a usePromise hook.
Pending == [tag |-> "pending", res |-> "none", val |-> <<>>]
ReadyOk(v) == [tag |-> "ready", res |-> "ok", val |-> v]
ReadyErr(e) == [tag |-> "ready", res |-> "err", val |-> e]
\* The hook of a component that is not rendered.
NoHook == [tag |-> "none", res |-> "none", val |-> <<>>]

(***************************************************************************)
(* State.                                                                  *)
(***************************************************************************)
VARIABLES
  fileList,       \* fileStore.fileList: sequence of file ids
  firstItem,      \* uiStore.firstItem
  fileSelection,  \* uiStore.fileSelection: ids in insertion order
  isSlideMode,    \* uiStore.isSlideMode
  phase,          \* SlideView: "rendered" (effects not yet run), "mounted", "unmounted"
  reactionLive,   \* the go-to-first-selected reaction is not yet disposed
  threw,          \* the last prev/next handler call ended in a TypeError
  source,         \* ZoomableImage: value of the `source` hook
  image,          \* ZoomableImage: value of the `image` hook
  rendered,       \* the image file ZoomableImage was last rendered for, or NoFile
  requests,       \* usePromise requests in flight: [hook, file, cur]
  preloads,       \* preload getImageSrc promises in flight: a bag of the files asked for
  preloaded,      \* the src last given to a preload Image element
  unhandled,      \* a promise was rejected with no handler attached
  width,          \* SlideView props: container width
  height,         \* SlideView props: container height
  clearsOnChange  \* usePromise: a hook whose inputs change is set back to pending

vars == <<fileList, firstItem, fileSelection, isSlideMode, phase, reactionLive,
          threw, source, image, rendered, requests, preloads, preloaded, unhandled,
          width, height, clearsOnChange>>

(***************************************************************************)
(* FileStore and UiStore operations, as functions of the values they read. *)
(***************************************************************************)
\* fileStore.fileList[i]: undefined outside the list.
FileAt(list, i) == IF i >= 0 /\ i < Len(list) THEN list[i + 1] ELSE NoFile

\* fileStore.getIndex(id): the index of the file with that id, or undefined.
getIndex(list, id) ==
  IF \E k \in 1..Len(list) : list[k] = id
    THEN Some((CHOOSE k \in 1..Len(list) : list[k] = id) - 1)
    ELSE Undef

\* uiStore.firstFileInView: the file at firstItem, or undefined.
firstFileInView(list, fi) == FileAt(list, fi)

\* isFinite(index) for the numbers the model passes: every integer is finite.
isFinite(index) == index \in Int

\* UiStore.setFirstItem(index: number = 0): the new firstItem.
setFirstItem(cur, arg) ==
  LET index == IF arg = Undef THEN 0 ELSE arg[1]
  IN  IF isFinite(index) THEN index ELSE cur

\* Set.add on the insertion-ordered fileSelection.
SelectionAdd(sel, id) ==
  IF \E i \in 1..Len(sel) : sel[i] = id THEN sel ELSE Append(sel, id)

\* UiStore.clearFileSelection().
clearFileSelection(sel) == <<>>

\* UiStore.selectFile(file, clear): the selection it leaves.  With an
\* undefined file the read of file.id throws after the selection was cleared.
selectFile(sel, file, clear) ==
  LET cleared == IF clear THEN clearFileSelection(sel) ELSE sel
  IN  IF file = NoFile THEN cleared ELSE SelectionAdd(cleared, file)

\* UiStore.deselectFile(file): Set.delete.
deselectFile(sel, file) == SelectSeq(sel, LAMBDA id : id # file)

\* UiStore.selectFiles(files, clear): replace (a Set keeps each id once), or
\* add one by one.
RECURSIVE AddAll(_, _)
AddAll(sel, ids) ==
  IF ids = <<>> THEN sel ELSE AddAll(SelectionAdd(sel, Head(ids)), Tail(ids))
selectFiles(sel, ids, clear) ==
  IF clear THEN AddAll(<<>>, ids) ELSE AddAll(sel, ids)

\* UiStore.selectAllFiles(): clear, then add every file of the list.
selectAllFiles(list) == AddAll(<<>>, list)

\* GalleryItem.renderContextMenu: replace the selection by the item unless
\* the selection holds it.
renderContextMenu(sel, file) ==
  IF \E i \in 1..Len(sel) : sel[i] = file THEN sel ELSE selectFile(sel, file, TRUE)

\* GalleryItemContextMenu.handleInspect: clearFileSelection, selectFile(file).
handleInspect(sel, file) == selectFile(clearFileSelection(sel), file, FALSE)

\* Whether selectFile(file, ...) throws a TypeError.
selectFileThrows(file) == file = NoFile

\* uiStore.firstSelectedFile?.id: the first id of the selection, or undefined.
firstSelectedFileId(sel) == IF sel = <<>> THEN Undef ELSE Some(sel[1])

(***************************************************************************)
(* SlideView.                                                              *)
(***************************************************************************)
\* isFirst / isLast computed values.
isFirst(fi) == fi = 0
isLast(list, fi) == fi = Len(list) - 1

\* goToFirstSelected with the selection kept: selectFile(file) without the
\* clear flag.
goToFirstSelectedKeepsSelection(list, st) ==
  LET id == IF st.sel = <<>> THEN Undef ELSE Some(st.sel[1])
  IN  IF st.live /\ id # Undef
        THEN LET index == getIndex(list, id[1])
             IN  [fi    |-> setFirstItem(st.fi, index),
                  sel   |-> IF index # Undef
                              THEN selectFile(st.sel, FileAt(list, index[1]), FALSE)
                              ELSE st.sel,
                  live  |-> FALSE,
                  threw |-> st.threw]
        ELSE st

\* The reaction "go to the first selected image on load": runs when the
\* first selected id is defined and the reaction was not disposed yet.
\* st is [fi, sel, live, threw]; the result is the store after the reaction.
goToFirstSelected(list, st) ==
  LET id == firstSelectedFileId(st.sel)
  IN  IF st.live /\ id # Undef
        THEN LET index == getIndex(list, id[1])
             IN  [fi    |-> setFirstItem(st.fi, index),
                  sel   |-> IF index # Undef
                              THEN selectFile(st.sel, FileAt(list, index[1]), TRUE)
                              ELSE st.sel,
                  live  |-> FALSE,
                  threw |-> st.threw]
        ELSE st

\* decrImgIndex: the store after the handler body.
decrImgIndex(list, st) ==
  LET index == Max(0, st.fi - 1)
  IN  [fi    |-> setFirstItem(st.fi, Some(index)),
       sel   |-> selectFile(st.sel, FileAt(list, index), TRUE),
       live  |-> st.live,
       threw |-> selectFileThrows(FileAt(list, index))]

\* incrImgIndex: the store after the handler body.  setFirstItem is called
\* without an argument, so its parameter takes the default.
incrImgIndex(list, st) ==
  LET index == Min(st.fi + 1, Len(list) - 1)
  IN  [fi    |-> setFirstItem(st.fi, Undef),
       sel   |-> selectFile(st.sel, FileAt(list, index), TRUE),
       live  |-> st.live,
       threw |-> selectFileThrows(FileAt(list, index))]

\* The keys handleUserKeyPress tells apart, and one it does not.
Keys == {"ArrowLeft", "ArrowRight", "Escape", "Backspace", "Enter"}

\* handleUserKeyPress with the check of the event target left out.
handleUserKeyPressAnyTarget(key, targetIsInput, list, st, slide) ==
  CASE key = "ArrowLeft"  -> [st |-> decrImgIndex(list, st), slide |-> slide]
    [] key = "ArrowRight" -> [st |-> incrImgIndex(list, st), slide |-> slide]
    [] key \in {"Escape", "Backspace"} -> [st |-> st, slide |-> FALSE]
    [] OTHER -> [st |-> st, slide |-> slide]

\* handleUserKeyPress(event): the store and the slide-mode flag it leaves.
\* targetIsInput is event.target instanceof HTMLInputElement.
handleUserKeyPress(key, targetIsInput, list, st, slide) ==
  CASE key = "ArrowLeft"  -> [st |-> decrImgIndex(list, st), slide |-> slide]
    [] key = "ArrowRight" -> [st |-> incrImgIndex(list, st), slide |-> slide]
    [] key \in {"Escape", "Backspace"} ->
         IF targetIsInput
           THEN [st |-> st, slide |-> slide]
           ELSE [st |-> st, slide |-> FALSE]
    [] OTHER -> [st |-> st, slide |-> slide]

\* NavigationButtons: style display none of the previous / the next button.
prevButtonHidden(fi) == isFirst(fi)
nextButtonHidden(list, fi) == isLast(list, fi)

\* Whether the gallery holds a thumbnail element of the file
\* (document.querySelector finds it): odd-numbered files are laid out.
thumbnailInGallery(f) == f % 2 = 1

\* SlideView's transitionStart for the file in view: the transform of its
\* thumbnail element, or undefined.
transitionStart(file) ==
  IF file # NoFile /\ thumbnailInGallery(file) THEN Some(file) ELSE Undef

\* transitionEnd with the condition inverted.
transitionEndWhileSliding(slide, start) == IF slide THEN start ELSE Undef

\* ContentSelector: uiStore.isSlideMode ? undefined : transitionStart
transitionEnd(slide, start) == IF slide THEN Undef ELSE start

\* The props ContentSelector passes to ZoomableImage or VideoPlayer.
contentProps(file, slide) ==
  [kind            |-> mediaType(file),
   transitionStart |-> transitionStart(file),
   transitionEnd   |-> transitionEnd(slide, transitionStart(file))]

\* The files the preload autorun asks the image loader for.
preloadTargets(list, fi) ==
  (IF ~isLast(list, fi) /\ fi + 1 < Len(list) THEN {FileAt(list, fi + 1)} ELSE {})
  \cup
  (IF ~isFirst(fi) /\ Len(list) > 0 THEN {FileAt(list, fi - 1)} ELSE {})

\* One run of the preload autorun: the requests it starts.
autorun(list, fi) == SetToBag(preloadTargets(list, fi))

\* The image file a render of SlideView renders ZoomableImage for, or NoFile
\* when ContentSelector renders none (no file in view, a video, unmounted).
viewedImage(list, fi, ph) ==
  LET file == firstFileInView(list, fi)
  IN  IF ph # "unmounted" /\ file # NoFile /\ mediaType(file) = "image"
        THEN file ELSE NoFile

(***************************************************************************)
(* ZoomableImage and VideoPlayer.                                          *)
(***************************************************************************)
\* What a promise ends with.
Resolved(v) == [res |-> "ok", val |-> v]
Rejected(e) == [res |-> "err", val |-> e]

\* What imageLoader.getImageSrc(file) can end with: a source, undefined
\* (nothing to convert to), or a rejection.
LoaderOutcomes == {"src", "undefined", "reject"}
\* What decoding an <img> can end with: onload or onerror.
DecodeOutcomes == {"load", "error"}

\* The source the image loader resolves for a file.
loadedSrc(file) == <<"full", file>>

\* The async function of the `source` hook: src ?? thumbnailPath.
sourceFetch(file, thumbnailSrc, outcome) ==
  CASE outcome = "src"       -> Resolved(loadedSrc(file))
    [] outcome = "undefined" -> Resolved(thumbnailSrc)
    [] OTHER                 -> Rejected(<<"loader", file>>)

\* thumbnailSrc || absolutePath with the file's stored dimension.
thumbnailImage(file, thumbnailSrc) ==
  [src       |-> IF thumbnailSrc = EmptyPath THEN absolutePath(file) ELSE thumbnailSrc,
   dimension |-> createDimension(fileWidth(file), fileHeight(file))]

\* imageFetch with img.onerror resolving instead of rejecting: a source that
\* cannot be decoded ends as the thumbnail.
imageFetchResolvesOnError(src, file, thumbnailSrc, outcome, natW, natH) ==
  IF src.tag = "ready" /\ src.res = "ok"
    THEN IF outcome = "load"
           THEN [res |-> "ok",
                 val |-> [src |-> src.val, dimension |-> <<natW, natH>>]]
           ELSE [res |-> "ok",
                 val |-> [src |-> IF thumbnailSrc = EmptyPath
                                    THEN absolutePath(file) ELSE thumbnailSrc,
                          dimension |-> <<fileWidth(file), fileHeight(file)>>]]
    ELSE IF src.tag = "ready"
           THEN [res |-> "err", val |-> src.val]
           ELSE [res |-> "ok",
                 val |-> [src |-> IF thumbnailSrc = EmptyPath
                                    THEN absolutePath(file) ELSE thumbnailSrc,
                          dimension |-> <<fileWidth(file), fileHeight(file)>>]]

\* The async function of the `image` hook, given the value of `source` it
\* was started with, the decode outcome and the natural dimension.
imageFetch(src, file, thumbnailSrc, outcome, natW, natH) ==
  IF src.tag = "ready"
    THEN IF src.res = "ok"
           THEN IF outcome = "load"
                  THEN Resolved([src |-> src.val,
                                 dimension |-> createDimension(natW, natH)])
                  ELSE Rejected(<<"decode", file>>)
           ELSE Rejected(src.val)
    ELSE Resolved(thumbnailImage(file, thumbnailSrc))

\* usePromise.  The hook is imported from src/frontend/hooks/usePromise, whose
\* code is not part of the sources at hand; what follows is its contract as
\* the design states it.
\*
\* A failure is a typed result, not an exception: the value of the hook once
\* a promise it accepts has ended.
usePromiseSettle(result) ==
  IF result.res = "ok" THEN ReadyOk(result.val) ELSE ReadyErr(result.val)

\* A request of a hook: the file it was started for and whether it is the
\* hook's latest one (a request-generation counter, kept as one bit).
Hooks == {"source", "image"}
Request(h, f, c) == [hook |-> h, file |-> f, cur |-> c]
\* A stale request, superseded by a newer one of its hook: what it was
\* started for is of no use any more.
Superseded(h) == Request(h, NoFile, FALSE)

\* The comparison made when a promise ends: only the latest request of a
\* hook is applied, a superseded one is discarded.
usePromiseApplies(r) == r.cur

\* The inputs of a hook changed: its requests in flight are superseded and a
\* new one is started.
usePromiseStart(reqs, h, f) ==
  {IF r.hook = h THEN Superseded(h) ELSE r : r \in reqs}
    \cup {Request(h, f, TRUE)}

\* The component of the hooks is unmounted: every request is superseded.
usePromiseDrop(reqs) == {Superseded(r.hook) : r \in reqs}

\* What a hook holds right after its inputs changed, until the new request
\* ends: pending when the hook clears its value, the previous value when it
\* does not.  The design does not say which; the model has both hooks.
usePromiseRestart(value, clears) == IF clears THEN Pending ELSE value

\* Whether the hook h holds the result of its latest request.
settled(reqs, h) == ~\E r \in reqs : r.hook = h /\ r.cur

\* shown with the loaded image ignored: always the thumbnail.
shownThumbnailOnly(img, file, thumbnailSrc) ==
  [src       |-> IF thumbnailSrc = EmptyPath THEN absolutePath(file) ELSE thumbnailSrc,
   dimension |-> <<fileWidth(file), fileHeight(file)>>]

\* ZoomableImage's render: the fallback, or the {src, dimension} shown.
showsFallback(img) == img.tag = "ready" /\ img.res = "err"
shown(img, file, thumbnailSrc) ==
  IF img.tag = "ready" /\ img.res = "ok"
    THEN img.val
    ELSE thumbnailImage(file, thumbnailSrc)

\* Fractions num / den with den > 0, as <<num, den>>.
Frac(n, d) == <<n, d>>
FracLeq(a, b) == a[1] * b[2] <= b[1] * a[2]
FracMin(a, b) == IF FracLeq(a, b) THEN a ELSE b
FracPos(a) == a[1] > 0

\* minScale with the outer Math.min written as Math.max.
minScaleWithMax(w, h, dimension) ==
  LET fit == FracMin(Frac(w, dimension[1]), Frac(h, dimension[2]))
  IN  IF FracLeq(fit, Frac(FloorNum, FloorDen)) THEN Frac(FloorNum, FloorDen) ELSE fit

\* Math.min(0.1, Math.min(width / dimension[0], height / dimension[1]))
minScale(w, h, dimension) ==
  FracMin(Frac(FloorNum, FloorDen),
          FracMin(Frac(w, dimension[1]), Frac(h, dimension[2])))

\* The scale bounds ZoomableImage passes to ZoomPan.
imageMinScale(w, h, img, file, thumbnailSrc) ==
  minScale(w, h, shown(img, file, thumbnailSrc).dimension)
\* The scale bounds VideoPlayer passes to ZoomPan.
videoMinScale(w, h) == minScale(w, h, createDimension(w, h))
maxScale == Frac(MaxScale, 1)

(***************************************************************************)
(* Initial state: SlideView has been rendered for the first time and the   *)
(* hooks of ZoomableImage have started their first requests; the effects   *)
(* of SlideView itself (reaction, preload autorun) run in Mount.           *)
(***************************************************************************)
\* The file list <<1, ..., n>>.
FirstFiles(n) == [i \in 1..n |-> i]

\* A hook of a component rendered for the first time: nothing has ended yet.
hookAtRender(file) == IF file = NoFile THEN NoHook ELSE Pending
\* The first requests of the two hooks of ZoomableImage.
requestsAtRender(file) ==
  IF file = NoFile THEN {} ELSE {Request(h, file, TRUE) : h \in Hooks}

\* The selection made in the gallery before slide mode was entered may hold
\* several files, and files that have left the file list since.
InitView ==
  /\ fileList \in {FirstFiles(n) : n \in 0..MaxFiles}
  /\ firstItem \in 0..Max(0, Len(fileList) - 1)
  /\ fileSelection \in {<<>>} \cup {<<f>> : f \in Files}
                       \cup {<<p[1], p[2]>> : p \in {q \in Files \X Files : q[1] # q[2]}}
  /\ isSlideMode = TRUE
  /\ phase = "rendered"
  /\ reactionLive = FALSE
  /\ threw = FALSE
  /\ rendered = viewedImage(fileList, firstItem, phase)
  /\ source = hookAtRender(rendered)
  /\ image = hookAtRender(rendered)
  /\ requests = requestsAtRender(rendered)
  /\ clearsOnChange \in BOOLEAN
  /\ preloads = EmptyBag
  /\ preloaded = EmptyPath
  /\ unhandled = FALSE

\* Any container size.
Init ==
  /\ InitView
  /\ width \in Dims
  /\ height \in Dims

\* One container size and a usePromise that clears, for the specifications
\* in which neither is read.
InitSized ==
  /\ InitView
  /\ width = Side(MaxDim - 1)
  /\ height = Side(0)
  /\ clearsOnChange = TRUE

\* Slide mode entered with nothing selected and one container size, with
\* either usePromise, for the specifications of the loader, which does not
\* read the selection.
InitUnselected ==
  /\ InitView
  /\ width = Side(MaxDim - 1)
  /\ height = Side(0)
  /\ fileSelection = <<>>

\* The UiStore fields the handlers of SlideView work on.
Store == [fi |-> firstItem, sel |-> fileSelection, live |-> reactionLive,
          threw |-> threw]

\* Whether the inputs of the `source` hook, usePromise(file, thumbnailSrc, ...),
\* differ between a render for file f0 and a render for file f1.
sourceInputsChanged(f0, f1) ==
  f0 # f1 \/ thumbnailPath(f0) # thumbnailPath(f1)

\* A handler has written the store (list1, st1) inside one MobX action.
\* When the action ends MobX runs what observes the written values, in the
\* order the values were written: the preload autorun when firstItem or the
\* file list changed, then the go-to-first-selected reaction, whose write of
\* firstItem makes the autorun run once more.  Rendering comes later (Render).
Commit(list1, st1) ==
  LET run1 == IF st1.fi # firstItem \/ list1 # fileList
                THEN autorun(list1, st1.fi) ELSE EmptyBag
      st2  == goToFirstSelected(list1, st1)
      run2 == IF st2.fi # st1.fi THEN autorun(list1, st2.fi) ELSE EmptyBag
  IN  /\ fileList' = list1
      /\ firstItem' = st2.fi
      /\ fileSelection' = st2.sel
      /\ reactionLive' = st2.live
      /\ threw' = st2.threw
      /\ preloads' = preloads (+) run1 (+) run2
      /\ BagCardinality(preloads') <= MaxInFlight
      /\ UNCHANGED <<phase, source, image, rendered, requests>>

\* ZoomableImage's hooks when SlideView is rendered for f1 after f0.  With no
\* image to show the component is unmounted; rendered anew, its hooks start
\* their first requests; rendered again for another file, both hooks have new
\* inputs (file for `source`, absolutePath for `image`) and start over.
Rerender(f0, f1) ==
  /\ rendered' = f1
  /\ CASE f1 = NoFile ->
            /\ source' = hookAtRender(f1)
            /\ image' = hookAtRender(f1)
            /\ requests' = usePromiseDrop(requests)
       [] f1 # NoFile /\ f0 = NoFile ->
            /\ source' = hookAtRender(f1)
            /\ image' = hookAtRender(f1)
            /\ requests' = usePromiseDrop(requests) \cup requestsAtRender(f1)
       [] f1 # NoFile /\ f0 # NoFile /\ sourceInputsChanged(f0, f1) ->
            /\ source' = usePromiseRestart(source, clearsOnChange)
            /\ image' = usePromiseRestart(image, clearsOnChange)
            /\ requests' = usePromiseStart(usePromiseStart(requests, "source", f1),
                                            "image", f1)
       [] OTHER -> UNCHANGED <<source, image, requests>>

(***************************************************************************)
(* Actions.                                                                *)
(***************************************************************************)
\* The effects of SlideView run after its first render: the reaction is
\* created with fireImmediately, then the preload autorun is created and
\* runs once.
Mount ==
  /\ phase = "rendered"
  /\ LET st == goToFirstSelected(fileList, [Store EXCEPT !.live = TRUE])
     IN  /\ firstItem' = st.fi
         /\ fileSelection' = st.sel
         /\ reactionLive' = st.live
         /\ threw' = st.threw
         /\ preloads' = preloads (+) autorun(fileList, st.fi)
  /\ phase' = "mounted"
  /\ UNCHANGED <<fileList, isSlideMode, source, image, rendered, requests,
                 preloaded, unhandled, width, height, clearsOnChange>>

\* The previous button.
PrevImage ==
  /\ phase = "mounted"
  /\ Commit(fileList, decrImgIndex(fileList, Store))
  /\ UNCHANGED <<isSlideMode, preloaded, unhandled, width, height, clearsOnChange>>

\* The next button.
NextImage ==
  /\ phase = "mounted"
  /\ Commit(fileList, incrImgIndex(fileList, Store))
  /\ UNCHANGED <<isSlideMode, preloaded, unhandled, width, height, clearsOnChange>>

\* uiStore.setFirstItem(k) called from outside SlideView with an index of the
\* file list.
SetFirstItem ==
  /\ phase = "mounted"
  /\ \E k \in 0..(Len(fileList) - 1) :
       Commit(fileList, [Store EXCEPT !.fi = setFirstItem(firstItem, Some(k))])
  /\ UNCHANGED <<isSlideMode, preloaded, unhandled, width, height, clearsOnChange>>

\* The context menu of a gallery item is opened.
SelectFile ==
  /\ phase = "mounted"
  /\ \E k \in 1..Len(fileList) :
       Commit(fileList,
              [Store EXCEPT !.sel = renderContextMenu(fileSelection, fileList[k])])
  /\ UNCHANGED <<isSlideMode, preloaded, unhandled, width, height, clearsOnChange>>

\* "Inspect" is chosen in the context menu of a gallery item.
InspectFile ==
  /\ phase = "mounted"
  /\ \E k \in 1..Len(fileList) :
       Commit(fileList,
              [Store EXCEPT !.sel = handleInspect(fileSelection, fileList[k])])
  /\ UNCHANGED <<isSlideMode, preloaded, unhandled, width, height, clearsOnChange>>

\* uiStore.selectFile(file) without the clear flag.
SelectFileNoClear ==
  /\ phase = "mounted"
  /\ \E k \in 1..Len(fileList) :
       Commit(fileList,
              [Store EXCEPT !.sel = selectFile(fileSelection, fileList[k], FALSE)])
  /\ UNCHANGED <<isSlideMode, preloaded, unhandled, width, height, clearsOnChange>>

\* uiStore.selectFiles(ids, clear) with a run of the file list as ids.
SelectFiles ==
  /\ phase = "mounted"
  /\ \E i \in 1..Len(fileList), clear \in BOOLEAN :
       \E j \in i..Len(fileList) :
         Commit(fileList,
                [Store EXCEPT !.sel = selectFiles(fileSelection,
                                                  SubSeq(fileList, i, j), clear)])
  /\ UNCHANGED <<isSlideMode, preloaded, unhandled, width, height, clearsOnChange>>

\* uiStore.deselectFile(file).
DeselectFile ==
  /\ phase = "mounted"
  /\ \E k \in 1..Len(fileList) :
       Commit(fileList,
              [Store EXCEPT !.sel = deselectFile(fileSelection, fileList[k])])
  /\ UNCHANGED <<isSlideMode, preloaded, unhandled, width, height, clearsOnChange>>

\* uiStore.clearFileSelection() or uiStore.clearSelection().
ClearFileSelection ==
  /\ phase = "mounted"
  /\ Commit(fileList, [Store EXCEPT !.sel = clearFileSelection(fileSelection)])
  /\ UNCHANGED <<isSlideMode, preloaded, unhandled, width, height, clearsOnChange>>

\* uiStore.selectAllFiles().
SelectAllFiles ==
  /\ phase = "mounted"
  /\ Commit(fileList, [Store EXCEPT !.sel = selectAllFiles(fileList)])
  /\ UNCHANGED <<isSlideMode, preloaded, unhandled, width, height, clearsOnChange>>

\* The owner of the file list removes the file at index k.
RemoveFile ==
  /\ phase = "mounted"
  /\ \E k \in 1..Len(fileList) :
       Commit(SubSeq(fileList, 1, k - 1) \o SubSeq(fileList, k + 1, Len(fileList)),
              Store)
  /\ UNCHANGED <<isSlideMode, preloaded, unhandled, width, height, clearsOnChange>>

\* uiStore.disableSlideMode: the back button, onClose.
DisableSlideMode ==
  /\ phase = "mounted"
  /\ isSlideMode' = FALSE
  /\ UNCHANGED <<fileList, firstItem, fileSelection, phase, reactionLive, threw,
                 source, image, rendered, requests, preloads, preloaded, unhandled,
                 width, height, clearsOnChange>>

\* uiStore.enableSlideMode.
EnableSlideMode ==
  /\ phase = "mounted"
  /\ isSlideMode' = TRUE
  /\ UNCHANGED <<fileList, firstItem, fileSelection, phase, reactionLive, threw,
                 source, image, rendered, requests, preloads, preloaded, unhandled,
                 width, height, clearsOnChange>>

\* A keydown event reaches the window listener of SlideView.
KeyDown(key, targetIsInput) ==
  /\ phase = "mounted"
  /\ LET r == handleUserKeyPress(key, targetIsInput, fileList, Store, isSlideMode)
     IN  /\ Commit(fileList, r.st)
         /\ isSlideMode' = r.slide
  /\ UNCHANGED <<preloaded, unhandled, width, height, clearsOnChange>>

KeyPress == \E key \in Keys, targetIsInput \in BOOLEAN : KeyDown(key, targetIsInput)

\* React renders SlideView after the store changed, with the size as it is:
\* ZoomableImage is rendered for the file now in view.
Render ==
  /\ phase = "mounted"
  /\ viewedImage(fileList, firstItem, phase) # rendered
  /\ Rerender(rendered, viewedImage(fileList, firstItem, phase))
  /\ UNCHANGED <<fileList, firstItem, fileSelection, isSlideMode, phase,
                 reactionLive, threw, preloads, preloaded, unhandled,
                 width, height, clearsOnChange>>

\* SlideView is unmounted: every effect is cleaned up.
Unmount ==
  /\ phase = "mounted"
  /\ phase' = "unmounted"
  /\ reactionLive' = FALSE
  /\ Rerender(rendered, NoFile)
  /\ UNCHANGED <<fileList, firstItem, fileSelection, isSlideMode, threw,
                 preloads, preloaded, unhandled, width, height, clearsOnChange>>

\* SlideMode renders SlideView with a new content size: the render also
\* brings ZoomableImage up to the file now in view.
Resize ==
  /\ phase = "mounted"
  /\ \E w \in Dims, h \in Dims :
       /\ <<w, h>> # <<width, height>>
       /\ width' = w
       /\ height' = h
  /\ Rerender(rendered, viewedImage(fileList, firstItem, phase))
  /\ UNCHANGED <<fileList, firstItem, fileSelection, isSlideMode, phase,
                 reactionLive, threw, preloads, preloaded, unhandled,
                 clearsOnChange>>

\* The promise of the request r of the `source` hook ends: getImageSrc for
\* the request's file ended with the given outcome.  A value the hook accepts
\* is a new input of the `image` hook, which starts over.
SourceSettleWith(r, outcome) ==
  /\ phase # "rendered"
  /\ r \in requests
  /\ r.hook = "source"
  /\ IF usePromiseApplies(r)
       THEN /\ source' = usePromiseSettle(
                           sourceFetch(r.file, thumbnailPath(r.file), outcome))
            /\ IF rendered # NoFile
                 THEN /\ image' = usePromiseRestart(image, clearsOnChange)
                      /\ requests' = usePromiseStart(requests \ {r}, "image", rendered)
                 ELSE /\ image' = image
                      /\ requests' = requests \ {r}
       ELSE /\ requests' = requests \ {r}
            /\ UNCHANGED <<source, image>>
  /\ UNCHANGED <<fileList, firstItem, fileSelection, isSlideMode, phase,
                 reactionLive, threw, rendered, preloads, preloaded, unhandled,
                 width, height, clearsOnChange>>

SourceSettle ==
  \E r \in requests, outcome \in LoaderOutcomes : SourceSettleWith(r, outcome)

\* The promise of the request r of the `image` hook ends.  The latest request
\* was started with the present value of `source` (a new value starts a new
\* request); when that is a resolved source, the <img> decoding it fired
\* onload with the natural dimension or onerror.
ImageSettleWith(r, outcome, natW, natH) ==
  /\ phase # "rendered"
  /\ r \in requests
  /\ r.hook = "image"
  /\ requests' = requests \ {r}
  /\ IF usePromiseApplies(r)
       THEN /\ (source.tag = "ready" /\ source.res = "ok" /\ outcome = "load")
                 \/ (natW = Side(0) /\ natH = Side(0))
            /\ (source.tag = "ready" /\ source.res = "ok") \/ outcome = "load"
            /\ image' = usePromiseSettle(
                          imageFetch(source, r.file, thumbnailPath(r.file),
                                     outcome, natW, natH))
       ELSE \* discarded: what the promise ended with is not read
            /\ outcome = "load" /\ natW = Side(0) /\ natH = Side(0)
            /\ image' = image
  /\ UNCHANGED <<fileList, firstItem, fileSelection, isSlideMode, phase,
                 reactionLive, threw, source, rendered, preloads,
                 preloaded, unhandled, width, height, clearsOnChange>>

ImageSettle ==
  \E r \in requests, outcome \in DecodeOutcomes, natW \in Dims, natH \in Dims :
    ImageSettleWith(r, outcome, natW, natH)

\* The effect-local flag isEffectRunning of the preload effect.
isEffectRunning == phase = "mounted"

\* preloadThen without the isEffectRunning guard.
preloadThenUnguarded(f, outcome) ==
  [assigned |-> outcome = "src" /\ f # NoFile,
   unhandled |-> outcome = "reject" \/ f = NoFile]

\* A preload request ends:
\*   .then((src) => isEffectRunning && src && (img.src = encodeFilePath(src)))
\* with no rejection handler attached.
preloadThen(f, outcome) ==
  [assigned |-> isEffectRunning /\ outcome = "src" /\ f # NoFile,
   unhandled |-> outcome = "reject" \/ f = NoFile]

\* One of the preload requests in flight ends with the given outcome.
PreloadSettleWith(outcome) ==
  /\ phase # "rendered"
  /\ \E f \in BagToSet(preloads) :
       LET r == preloadThen(f, outcome)
       IN  /\ preloads' = preloads (-) SetToBag({f})
           /\ preloaded' = IF r.assigned THEN loadedSrc(f) ELSE preloaded
           /\ unhandled' = (unhandled \/ r.unhandled)
  /\ UNCHANGED <<fileList, firstItem, fileSelection, isSlideMode, phase,
                 reactionLive, threw, source, image, rendered, requests,
                 width, height, clearsOnChange>>

PreloadSettle == \E outcome \in LoaderOutcomes : PreloadSettleWith(outcome)

\* A preload request ends with no source to assign.
PreloadNoSource == PreloadSettleWith("undefined")

Next ==
  \/ Mount
  \/ PrevImage
  \/ NextImage
  \/ SetFirstItem
  \/ SelectFile
  \/ InspectFile
  \/ SelectFileNoClear
  \/ SelectFiles
  \/ DeselectFile
  \/ ClearFileSelection
  \/ SelectAllFiles
  \/ RemoveFile
  \/ DisableSlideMode
  \/ EnableSlideMode
  \/ KeyPress
  \/ Render
  \/ Unmount
  \/ Resize
  \/ SourceSettle
  \/ ImageSettle
  \/ PreloadSettle

\* Every action, from every container size.
Spec == Init /\ [][Next]_vars

(***************************************************************************)
(* The store, the loader, the preloader and the container size are         *)
(* independent but for the direction store -> loader, preloader: no        *)
(* completion, no render and no resize writes a field of the store.  Each  *)
(* property is checked under a specification that holds the actions        *)
(* writing the variables it reads; the requests the preload autorun starts *)
(* end in every one of them, with every outcome where the property reads   *)
(* what a preload leaves.                                                  *)
(***************************************************************************)
\* Navigation, selection and list mutation.
NextNav ==
  \/ Mount
  \/ PrevImage
  \/ NextImage
  \/ SetFirstItem
  \/ SelectFile
  \/ InspectFile
  \/ SelectFileNoClear
  \/ SelectFiles
  \/ DeselectFile
  \/ ClearFileSelection
  \/ SelectAllFiles
  \/ RemoveFile
  \/ Unmount
  \/ PreloadNoSource

SpecNav == InitSized /\ [][NextNav]_vars

\* The store's actions, rendering and the completions of ZoomableImage's
\* requests.
NextLoad ==
  \/ Mount
  \/ PrevImage
  \/ NextImage
  \/ InspectFile
  \/ RemoveFile
  \/ Render
  \/ Unmount
  \/ SourceSettle
  \/ ImageSettle
  \/ PreloadNoSource

SpecLoad == InitUnselected /\ [][NextLoad]_vars

\* Viewing, loading and resizing: what the scale bounds are computed from.
NextZoom ==
  \/ Mount
  \/ PrevImage
  \/ NextImage
  \/ Render
  \/ Unmount
  \/ SourceSettle
  \/ ImageSettle
  \/ Resize
  \/ PreloadNoSource

SpecZoom == InitUnselected /\ [][NextZoom]_vars

\* The store's actions and the completions of the preload requests.
NextPreload ==
  \/ Mount
  \/ PrevImage
  \/ NextImage
  \/ SetFirstItem
  \/ InspectFile
  \/ RemoveFile
  \/ DisableSlideMode
  \/ EnableSlideMode
  \/ Unmount
  \/ PreloadSettle

SpecPreload == InitSized /\ [][NextPreload]_vars

\* The store driven from the keyboard, and the slide-mode flag.
NextKeys ==
  \/ Mount
  \/ KeyPress
  \/ InspectFile
  \/ RemoveFile
  \/ EnableSlideMode
  \/ Unmount
  \/ PreloadNoSource

SpecKeys == InitSized /\ [][NextKeys]_vars

(***************************************************************************)
(* Properties.                                                             *)
(***************************************************************************)
InRange(list, i) == i >= 0 /\ i <= Len(list) - 1

\* C1: stepping moves the current index by exactly one, clamped at both ends:
\* on a list of length n >= 1 with the index i in range, next leaves
\* firstItem at min(i + 1, n - 1) and prev leaves it at max(0, i - 1).
C1_StepByOne ==
  [][/\ (NextImage /\ InRange(fileList, firstItem))
        => firstItem' = Min(firstItem + 1, Len(fileList) - 1)
     /\ (PrevImage /\ InRange(fileList, firstItem))
        => firstItem' = Max(0, firstItem - 1)]_vars

\* C2: on a non-empty list, next and prev from an index in range leave the
\* index in range, and next at the last index leaves the index unchanged.
C2_StaysInRange ==
  [][((NextImage \/ PrevImage) /\ InRange(fileList, firstItem))
       => /\ InRange(fileList', firstItem')
          /\ (NextImage /\ firstItem = Len(fileList) - 1) => firstItem' = firstItem]_vars

\* C4: prev and next never throw, whatever the list length and the index.
C4_NeverThrows == ~threw

\* C5: after the file list shrinks, the current index is back within
\* [0, length - 1] (for a list that is not empty).
C5_ClampedAfterRemoval ==
  [][(RemoveFile /\ Len(fileList') >= 1) => InRange(fileList', firstItem')]_vars

\* A step in which the go-to-first-selected reaction runs its effect: it was
\* live (or is created by Mount) and is disposed with SlideView still mounted.
JumpFires ==
  /\ phase' = "mounted"
  /\ ~reactionLive'
  /\ phase = "rendered" \/ reactionLive

\* The id the reaction ran for is the first selected id; it is still the
\* first id of the selection afterwards.
JumpedTo(k) ==
  /\ firstItem' = k - 1
  /\ fileSelection' = <<fileList[k]>>

\* C9 as claimed: when the first selected id becomes defined and is in the
\* list at index k, firstItem becomes k and the selection exactly that file;
\* when it is not in the list the selection is unchanged and firstItem ends
\* within [0, length - 1].
C9_JumpInRange ==
  [][JumpFires =>
       /\ phase = "rendered" => fileSelection'[1] = fileSelection[1]
       /\ IF \E k \in 1..Len(fileList) : fileList[k] = fileSelection'[1]
            THEN \A k \in 1..Len(fileList) :
                   fileList[k] = fileSelection'[1] => JumpedTo(k)
            ELSE /\ fileSelection' = fileSelection
                 /\ InRange(fileList', firstItem')]_vars

\* C9 amended: when the id is not in the list the selection is unchanged and
\* firstItem becomes 0, which is within [0, length - 1] unless the list is
\* empty.
C9_JumpToSelected ==
  [][JumpFires =>
       /\ phase = "rendered" => fileSelection'[1] = fileSelection[1]
       /\ IF \E k \in 1..Len(fileList) : fileList[k] = fileSelection'[1]
            THEN \A k \in 1..Len(fileList) :
                   fileList[k] = fileSelection'[1] => JumpedTo(k)
            ELSE /\ fileSelection' = fileSelection
                 /\ firstItem' = 0
                 /\ Len(fileList') >= 1 => InRange(fileList', firstItem')]_vars

\* The reaction has run and moved the view from the first file to the third.
C9_Witness ==
  /\ phase = "mounted"
  /\ ~reactionLive
  /\ fileList = <<1, 2, 3>>
  /\ firstItem = 2
  /\ fileSelection = <<3>>
  /\ preloads = SetToBag({2})

\* The image file ZoomableImage is rendered for.
Viewed == rendered

\* C6: a failed load of the image in view ends as ready(err) of `image` and
\* the fallback is rendered, for a rejected getImageSrc as for an <img> that
\* fires onerror; the failure is a value of the hook, no exception and no
\* unhandled rejection; and once both hooks hold the result of their latest
\* request the error stays for as long as the item stays.
C6_ErrorIsTerminal ==
  [][/\ \A r \in requests :
          (r.cur /\ r.hook = "source" /\ SourceSettleWith(r, "reject"))
            => /\ source' = ReadyErr(<<"loader", Viewed>>)
               /\ ~settled(requests', "image")
               /\ UNCHANGED <<threw, unhandled>>
     /\ \A r \in requests, outcome \in DecodeOutcomes :
          (/\ r.cur /\ r.hook = "image"
           /\ source.res = "err" \/ outcome = "error"
           /\ ImageSettleWith(r, outcome, Side(0), Side(0)))
            => /\ showsFallback(image')
               /\ image'.val = IF source.res = "err"
                                 THEN source.val ELSE <<"decode", Viewed>>
               /\ UNCHANGED <<threw, unhandled>>
     /\ (Viewed' # NoFile /\ settled(requests', "image") /\ source'.res = "err")
          => showsFallback(image') /\ image'.val = source'.val
     /\ (showsFallback(image) /\ settled(requests, "image")
          /\ settled(requests, "source") /\ Viewed' = Viewed)
          => image' = image /\ source' = source]_vars

\* The source of the first file was resolved and its <img> fired onerror: the
\* fallback is rendered with the decode failure.
C6_Witness ==
  /\ phase = "mounted"
  /\ Viewed = 1
  /\ source = ReadyOk(loadedSrc(1))
  /\ settled(requests, "image")
  /\ showsFallback(image)
  /\ image.val = <<"decode", 1>>

ScaleOk(m) == m[1] > 0 /\ m[2] > 0 /\ m[1] * maxScale[2] <= maxScale[1] * m[2]

\* C7: with positive container and content dimensions the scale bounds
\* passed to ZoomPan satisfy 0 < minScale <= maxScale, for the image viewer
\* and for the video player.
C7_ScaleBounds ==
  LET f == firstFileInView(fileList, firstItem)
  IN  /\ (Viewed # NoFile /\ ~showsFallback(image))
           => ScaleOk(imageMinScale(width, height, image, Viewed,
                                    thumbnailPath(Viewed)))
      /\ (phase # "unmounted" /\ f # NoFile /\ mediaType(f) = "video")
           => ScaleOk(videoMinScale(width, height))

\* A decoded image twelve times wider than its container: the fit ratio is
\* below the floor.
C7_Witness ==
  /\ phase = "mounted"
  /\ source.tag = "ready" /\ source.res = "ok"
  /\ image.tag = "ready" /\ image.res = "ok"
  /\ width = 1
  /\ image.val.dimension = <<12, 1>>

\* The full image of the file in view has been decoded.
FullImageShown ==
  /\ image.tag = "ready" /\ image.res = "ok"
  /\ source.tag = "ready" /\ source.res = "ok"

C10_PreloadIsSilent ==
  [][\A f \in Files :
       (BagIn(f, preloads) /\ preloads' = preloads (-) SetToBag({f}))
         => /\ UNCHANGED <<firstItem, fileSelection, isSlideMode, source, image>>
            /\ unhandled' = unhandled]_vars

\* C12: after every prev or next on a non-empty list the selection is exactly
\* the file at the new current index.
C12_SelectionIsCurrent ==
  [][((PrevImage \/ NextImage) /\ Len(fileList) >= 1)
       => fileSelection' = <<FileAt(fileList', firstItem')>>]_vars

\* C13: the preload effect only asks the image loader for files that exist:
\* no request in flight is for an undefined file.
C13_PreloadsExist == ~BagIn(NoFile, preloads)

\* C14: a preload request that ends after the preload effect was cleaned up
\* assigns no source to its Image element; one that ends while the effect is
\* running assigns only a source that is not empty, the one resolved for the
\* file it asked for.
C14_NoAssignAfterCleanup ==
  [][/\ ~isEffectRunning => preloaded' = preloaded
     /\ preloaded' # preloaded
          => /\ isEffectRunning
             /\ preloaded' # EmptyPath
             /\ \E f \in BagToSet(preloads) :
                  /\ preloads' = preloads (-) SetToBag({f})
                  /\ preloaded' = loadedSrc(f)]_vars

\* SlideView is unmounted after one preload was assigned, with another
\* request still in flight.
C14_Witness ==
  /\ phase = "unmounted"
  /\ preloaded = loadedSrc(1)
  /\ preloads = SetToBag({3})

\* C15: the previous button is hidden exactly when no file precedes the
\* current index, the next button exactly when no file follows it, for every
\* list length and every current index.
C15_ButtonsMatchNeighbours ==
  phase # "unmounted" =>
    /\ prevButtonHidden(firstItem) <=> FileAt(fileList, firstItem - 1) = NoFile
    /\ nextButtonHidden(fileList, firstItem) <=> FileAt(fileList, firstItem + 1) = NoFile

\* C16: ArrowLeft is exactly one prev and ArrowRight exactly one next, neither
\* changing the slide-mode flag; Escape and Backspace clear the slide-mode
\* flag and leave the rest of the store alone, unless the event target is an
\* input element, in which case nothing changes.
C16_KeyHandler ==
  [][\A t \in BOOLEAN :
       /\ KeyDown("ArrowLeft", t) => PrevImage /\ isSlideMode' = isSlideMode
       /\ KeyDown("ArrowRight", t) => NextImage /\ isSlideMode' = isSlideMode
       /\ \A key \in {"Escape", "Backspace"} :
            /\ KeyDown(key, FALSE)
                 => /\ isSlideMode' = FALSE
                    /\ UNCHANGED <<fileList, firstItem, fileSelection, threw>>
            /\ KeyDown(key, TRUE) => UNCHANGED vars]_vars

\* Slide mode was left from the keyboard with the second file in view.
C16_Witness ==
  /\ phase = "mounted"
  /\ ~isSlideMode
  /\ fileList = <<1, 2, 3>>
  /\ firstItem = 1
  /\ fileSelection = <<2>>

\* C17: the props of the image viewer and of the video player have no
\* transition end while slide mode is enabled, and the transition start as
\* transition end while it is disabled.
C17_TransitionEndArmedOnExit ==
  LET f == firstFileInView(fileList, firstItem)
      props == contentProps(f, isSlideMode)
  IN  (phase # "unmounted" /\ f # NoFile /\ props.kind \in {"image", "video"}) =>
        /\ isSlideMode => props.transitionEnd = Undef
        /\ ~isSlideMode => props.transitionEnd = transitionStart(f)

\* Slide mode is turned off with a video in view whose thumbnail is laid out
\* in the gallery: the transition end is its thumbnail's transform.
C17_Witness ==
  /\ phase = "mounted"
  /\ ~isSlideMode
  /\ mediaType(firstFileInView(fileList, firstItem)) = "video"
  /\ contentProps(firstFileInView(fileList, firstItem), isSlideMode).transitionEnd
       = Some(3)

====
